---- MODULE Spec2Model ----
(***************************************************************************)
(* Model of apidoc-openapi's transform (src/index.js): getPaths,           *)
(* getSchema, toPatternedFieldname and filterParentParams.                 *)
(*                                                                         *)
(* JavaScript strings are modelled as sequences of one-character strings,  *)
(* so that split/indexOf/replace/slice/toLowerCase act on characters as    *)
(* they do in the source.  JavaScript objects are functions from keys to   *)
(* values; a member that the code leaves out is a key outside the DOMAIN.  *)
(***************************************************************************)
EXTENDS Integers, Sequences, FiniteSets, TLC

VARIABLES
    data,         \* getPaths: the endpoint list handed to getPaths
    idx,          \* getPaths: number of items of data already processed
    pathsObject,  \* getPaths: the Paths map under construction
    params,       \* getSchema: the sibling field list
    param,        \* getSchema: the field to resolve
    schema,       \* getSchema: the returned schema
    stack,        \* getSchema: the calls of the recursion still to be made
    url,          \* toPatternedFieldname: the route template
    out,          \* toPatternedFieldname: the routes returned so far
    pc            \* position of the running function

vars == <<data, idx, pathsObject, params, param, schema, stack, url, out, pc>>

----------------------------------------------------------------------------
(* Bounds of the model.                                                    *)

MaxUrlLen == 5
MaxFields == 3
MaxTypeParts == 3
MaxData == 2
MaxParams == 2

----------------------------------------------------------------------------
(* JavaScript string primitives on character sequences.                    *)

\* the sequences over S of length at most n
SeqsUpTo(S, n) == UNION {[1..k -> S] : k \in 0..n}

\* String.prototype.indexOf(t): first 0-based position of t in s, or -1
IndexOf(s, t) ==
    LET hits == {i \in 0..(Len(s) - Len(t)) : SubSeq(s, i + 1, i + Len(t)) = t}
    IN  IF hits = {} THEN -1 ELSE CHOOSE i \in hits : \A j \in hits : i <= j

\* String.prototype.replace(t, r) with a string pattern: first occurrence only
Replace(s, t, r) ==
    LET i == IndexOf(s, t)
    IN  IF i = -1 THEN s
        ELSE SubSeq(s, 1, i) \o r \o SubSeq(s, i + Len(t) + 1, Len(s))

\* String.prototype.slice(1)
Slice1(s) == SubSeq(s, 2, Len(s))

UpperLetters == <<"A","B","C","D","E","F","G","H","I","J","K","L","M",
                  "N","O","P","Q","R","S","T","U","V","W","X","Y","Z">>
LowerLetters == <<"a","b","c","d","e","f","g","h","i","j","k","l","m",
                  "n","o","p","q","r","s","t","u","v","w","x","y","z">>

LowerChar(c) ==
    IF \E k \in DOMAIN UpperLetters : UpperLetters[k] = c
    THEN LowerLetters[CHOOSE k \in DOMAIN UpperLetters : UpperLetters[k] = c]
    ELSE c

UpperChar(c) ==
    IF \E k \in DOMAIN LowerLetters : LowerLetters[k] = c
    THEN UpperLetters[CHOOSE k \in DOMAIN LowerLetters : LowerLetters[k] = c]
    ELSE c

\* String.prototype.toLowerCase / toUpperCase
ToLowerCase(s) == [k \in DOMAIN s |-> LowerChar(s[k])]
ToUpperCase(s) == [k \in DOMAIN s |-> UpperChar(s[k])]

\* String.prototype.split('/'): "" splits to [""], "/a" to ["", "a"]
RECURSIVE Split(_, _)
Split(s, sep) ==
    LET i == IndexOf(s, <<sep>>)
    IN  IF i = -1 THEN <<s>>
        ELSE <<SubSeq(s, 1, i)>> \o Split(SubSeq(s, i + 2, Len(s)), sep)

\* Array.prototype.join('/')
RECURSIVE Join(_, _)
Join(segs, sep) ==
    IF Len(segs) = 0 THEN <<>>
    ELSE IF Len(segs) = 1 THEN segs[1]
    ELSE segs[1] \o <<sep>> \o Join(Tail(segs), sep)

\* the elements of a sequence
Range(s) == {s[k] : k \in DOMAIN s}

----------------------------------------------------------------------------
(* toPatternedFieldname (index.js 272-279)                                 *)

\* the map callback: a segment that starts with ':' is wrapped in braces
PatternSegment_keepSigil(segment) ==
    IF Len(segment) > 0 /\ segment[1] = ":"
    THEN <<"{">> \o segment \o <<"}">>
    ELSE segment

PatternSegment(segment) ==
    IF Len(segment) > 0 /\ segment[1] = ":"
    THEN <<"{">> \o Slice1(segment) \o <<"}">>
    ELSE segment

toPatternedFieldname(u) ==
    LET segs == Split(u, "/")
    IN  Join([k \in DOMAIN segs |-> PatternSegment(segs[k])], "/")

----------------------------------------------------------------------------
(* Literal strings of the source.                                          *)

contentType == "application/json"
sObjectDecl == <<"O","b","j","e","c","t">>
sObject == <<"o","b","j","e","c","t">>
sArray == <<"a","r","r","a","y">>
sString == <<"s","t","r","i","n","g">>
sMarker == <<"[","]">>
sDotDot == <<".",".">>
sDot == <<".">>
sHeader == <<"H","e","a","d","e","r">>
sSuccessSp == <<"S","u","c","c","e","s","s"," ">>
sErrorSp == <<"E","r","r","o","r"," ">>

\* JavaScript truthiness of an optional string member (undefined and "" are falsy)
Truthy(obj, key) == key \in DOMAIN obj /\ obj[key] # <<>>

\* JavaScript truthiness of an optional array member (any array is truthy)
Present(obj, key) == key \in DOMAIN obj

\* obj[key] = value on a JavaScript object
Put(obj, key, value) ==
    [x \in (DOMAIN obj) \cup {key} |-> IF x = key THEN value ELSE obj[x]]

\* delete obj[key]
Remove(obj, key) == [x \in (DOMAIN obj) \ {key} |-> obj[x]]

\* Object.keys(obj).length is 0
IsEmptyObject(obj) == DOMAIN obj = {}

\* Object.assign({}, param, {type: t})
WithType(p, t) == [x \in DOMAIN p |-> IF x = "type" THEN t ELSE p[x]]

----------------------------------------------------------------------------
(* filterParentParams (index.js 282-284)                                   *)

IsDirect(p) == IndexOf(p.field, sDot) = -1

filterParentParams(ps) == SelectSeq(ps, IsDirect)

----------------------------------------------------------------------------
(* getSchema (index.js 287-330)                                            *)

\* the filter callback of childParams (290-294)
IsChildParam(parent, p) ==
    LET ppath == parent.field \o sDot
    IN  /\ IndexOf(p.field, ppath) = 0
        /\ IndexOf(Replace(p.field, ppath, <<>>), sDot) = -1

\* a filter that tests the prefix only and so keeps grandchildren
ChildParams_anyDescendant(ps, parent) ==
    SelectSeq(ps, LAMBDA p : IndexOf(p.field, parent.field \o sDot) = 0)

ChildParams(ps, parent) == SelectSeq(ps, LAMBDA p : IsChildParam(parent, p))

\* the property name of a child (305)
PropName(parent, p) == Replace(p.field, parent.field \o sDot, <<>>)

\* the names pushed to schema.required by a loop over fields stored under
\* names (307-309): one push for every field that is not optional
RequiredOf(fields, names) ==
    LET pushed == SelectSeq([k \in DOMAIN fields |-> k], LAMBDA k : ~fields[k].optional)
    IN  [k \in DOMAIN pushed |-> names[pushed[k]]]

\* the last field of a list that is stored under the name n: the assignments
\* to schema.properties[name] in list order leave the last one (306)
LastNamed(fields, names, n) ==
    fields[CHOOSE k \in DOMAIN fields :
              /\ names[k] = n
              /\ \A j \in DOMAIN fields : names[j] = n => j <= k]

\* the property names of the children of a field, in list order
PropNames(parent, children) ==
    [k \in DOMAIN children |-> PropName(parent, children[k])]

\* the field names of a list of fields, in list order
FieldNames(fields) == [k \in DOMAIN fields |-> fields[k].field]

\* the scalar branch (318-328)
ScalarSchema(p) ==
    LET t == ToLowerCase(p.type)
        withMax == t = sString /\ Truthy(p, "size")
        withEnum == Present(p, "allowedValues")
        maxLength == Replace(p.size, sDotDot, <<>>)
    IN  IF withMax /\ withEnum
        THEN [type |-> t, maxLength |-> maxLength, enum |-> p.allowedValues]
        ELSE IF withMax THEN [type |-> t, maxLength |-> maxLength]
        ELSE IF withEnum THEN [type |-> t, enum |-> p.allowedValues]
        ELSE [type |-> t]

\* the branch conditions (288-289)
IsObjectType(p) == p.type = sObjectDecl
IsArrayType(p) == p.type # <<>> /\ IndexOf(p.type, sMarker) # -1

\* an element copy that forgets to strip the marker
ElementParam_keepMarker(p) == WithType(p, Replace(p.type, sMarker, sMarker))

\* the copy of the field with one array marker removed from its type (314-316)
ElementParam(p) == WithType(p, Replace(p.type, sMarker, <<>>))

\* an array branch that takes the element for a scalar instead of recursing
RECURSIVE getSchema_flatItems(_, _)
getSchema_flatItems(ps, p) ==
    LET childParams == ChildParams(ps, p)
        props == PropNames(p, childParams)
    IN  IF IsObjectType(p)
        THEN [type |-> sObject,
              properties |->
                  [n \in Range(props) |-> getSchema_flatItems(ps, LastNamed(childParams, props, n))],
              required |-> RequiredOf(childParams, props)]
        ELSE IF IsArrayType(p)
        THEN [type |-> sArray, items |-> ScalarSchema(ElementParam(p))]
        ELSE ScalarSchema(p)

RECURSIVE getSchema(_, _)
getSchema(ps, p) ==
    LET childParams == ChildParams(ps, p)
        props == PropNames(p, childParams)
    IN  IF IsObjectType(p)
        THEN [type |-> sObject,
              properties |->
                  [n \in Range(props) |-> getSchema(ps, LastNamed(childParams, props, n))],
              required |-> RequiredOf(childParams, props)]
        ELSE IF IsArrayType(p)
        THEN [type |-> sArray, items |-> getSchema(ps, ElementParam(p))]
        ELSE ScalarSchema(p)

\* the calls getSchema makes from one activation: one per child in the
\* Object branch (306), one for the element in the array branch (314)
RecursiveCalls(ps, p) ==
    IF IsObjectType(p) THEN ChildParams(ps, p)
    ELSE IF IsArrayType(p) THEN <<ElementParam(p)>>
    ELSE <<>>

----------------------------------------------------------------------------
(* getPaths (index.js 116-242) and addParam (244-257)                      *)

\* content: { [contentType]: { schema } }
Content(s) == (contentType :> [schema |-> s])

EmptyObjectSchema == [type |-> sObject, properties |-> <<>>, required |-> <<>>]

ParameterObject(p, ps, location) ==
    [name |-> p.field,
     description |-> p.description,
     in |-> location,
     required |-> ~p.optional,
     content |-> Content(getSchema(ps, p))]

addParam(p, ps, store) == Append(store, ParameterObject(p, ps, "path"))

\* the loop over the 'URI Parameter' group (146-153)
RECURSIVE AddPathParams(_, _, _)
AddPathParams(pathParams, k, store) ==
    IF k > Len(pathParams) THEN store
    ELSE AddPathParams(pathParams, k + 1, addParam(pathParams[k], pathParams, store))

\* the body branch (175-193): the request body is created on the first body
\* field, the field becomes a property and, unless optional, a required name
AddBodyField(requestBodyObject, ps, p) ==
    LET created == IF IsEmptyObject(requestBodyObject)
                   THEN [required |-> TRUE, content |-> Content(EmptyObjectSchema)]
                   ELSE requestBodyObject
        sch == created.content[contentType].schema
    IN  [required |-> TRUE,
         content |-> Content(
             [type |-> sObject,
              properties |-> Put(sch.properties, p.field, getSchema(ps, p)),
              required |-> IF p.optional THEN sch.required
                           ELSE Append(sch.required, p.field)])]

\* a query test that knows 'get' only
IsQueryMethod_getOnly(httpMethod) == httpMethod \in {"get"}

\* ['get', 'delete'].indexOf(httpMethod) !== -1 (156)
IsQueryMethod(httpMethod) == httpMethod \in {"get", "delete"}

\* one iteration of the loop over params (154-195); acc holds the operation's
\* parameters and requestBody
ClassifyParam(ps, p, httpMethod, acc) ==
    LET isHeader == p.group = sHeader
        isQueryParam == ~isHeader /\ IsQueryMethod(httpMethod)
        isBodyParam == ~isQueryParam
    IN  IF isHeader \/ isQueryParam
        THEN [acc EXCEPT !.parameters =
                 Append(@, ParameterObject(p, ps, IF isHeader THEN "header" ELSE "query"))]
        ELSE IF isBodyParam
        THEN [acc EXCEPT !.requestBody = AddBodyField(@, ps, p)]
        ELSE acc

RECURSIVE ClassifyParams(_, _, _, _)
ClassifyParams(ps, k, httpMethod, acc) ==
    IF k > Len(ps) THEN acc
    ELSE ClassifyParams(ps, k + 1, httpMethod, ClassifyParam(ps, ps[k], httpMethod, acc))

\* group.replace(/(Success|Error)\ /, ''): the leftmost match is removed
StripStatusWord(group) ==
    LET i == IndexOf(group, sSuccessSp)
        j == IndexOf(group, sErrorSp)
    IN  IF i = -1 /\ j = -1 THEN group
        ELSE IF j = -1 \/ (i # -1 /\ i < j) THEN Replace(group, sSuccessSp, <<>>)
        ELSE Replace(group, sErrorSp, <<>>)

\* the status code of a response group (207)
StatusCode(group) == ToUpperCase(StripStatusWord(group))

\* one iteration of the loop over responseGroups (200-227): a group with a
\* direct field writes one response object, keyed by the status code that
\* the first direct field's group gives
AddResponseGroup(responsesObject, responses) ==
    LET direct == filterParentParams(responses)
    IN  IF direct = <<>> THEN responsesObject
        ELSE Put(responsesObject, StatusCode(direct[1].group),
                 [content |-> Content(
                     [type |-> sObject,
                      properties |->
                          [n \in Range(FieldNames(direct)) |->
                              getSchema(responses,
                                        LastNamed(direct, FieldNames(direct), n))],
                      required |-> RequiredOf(direct, FieldNames(direct))])])

RECURSIVE AddResponseGroups(_, _, _)
AddResponseGroups(responseGroups, k, responsesObject) ==
    IF k > Len(responseGroups) THEN responsesObject
    ELSE AddResponseGroups(responseGroups, k + 1,
                           AddResponseGroup(responsesObject, responseGroups[k]))

\* an operation that keeps its empty requestBody
DropEmptyRequestBody_keep(operationObject) == operationObject

\* if (!Object.keys(requestBodyObject).length) delete operationObject.requestBody (236-238)
DropEmptyRequestBody(operationObject) ==
    IF IsEmptyObject(operationObject.requestBody)
    THEN Remove(operationObject, "requestBody")
    ELSE operationObject

\* the operation getPaths builds for one item (126-238)
OperationOf(item) ==
    LET httpMethod == item.type
        ps == item.header \o item.parameter
        pathParameters == AddPathParams(item.uriParameter, 1, <<>>)
        classified == ClassifyParams(ps, 1, httpMethod,
                          [parameters |-> pathParameters, requestBody |-> <<>>])
        operationObject ==
            [summary |-> item.title,
             description |-> item.description,
             operationId |-> item.group \o sDot \o item.name,
             parameters |-> classified.parameters,
             requestBody |-> classified.requestBody,
             responses |-> AddResponseGroups(item.success \o item.error, 1, <<>>),
             tags |-> <<item.group>>]
        marked == IF item.deprecated THEN Put(operationObject, "deprecated", TRUE)
                  ELSE operationObject
    IN  DropEmptyRequestBody(marked)

\* a fetch that starts a new Path Item for every endpoint
PathItemAt_fresh(paths, endpoint) == <<>>

\* fetch-or-create the Path Item of a route (121-124)
PathItemAt(paths, endpoint) ==
    IF endpoint \in DOMAIN paths THEN paths[endpoint] ELSE <<>>

\* one iteration of the loop over data (119-239)
ProcessItem(paths, item) ==
    LET endpoint == toPatternedFieldname(item.url)
        pathItemObject == PathItemAt(paths, endpoint)
    IN  Put(paths, endpoint, Put(pathItemObject, item.type, OperationOf(item)))

----------------------------------------------------------------------------
(* Inputs: field records as apidoc's parser emits them.                    *)

sDescription == <<"d">>
sParameter == <<"P","a","r","a","m","e","t","e","r">>
sStringDecl == <<"S","t","r","i","n","g">>
sNumberDecl == <<"N","u","m","b","e","r">>

Field(path, type, optional, group) ==
    [field |-> path, type |-> type, optional |-> optional, group |-> group,
     description |-> sDescription]

FieldSized(path, type, optional, group, size) ==
    [field |-> path, type |-> type, optional |-> optional, group |-> group,
     description |-> sDescription, size |-> size]

FieldEnum(path, type, optional, group, values) ==
    [field |-> path, type |-> type, optional |-> optional, group |-> group,
     description |-> sDescription, allowedValues |-> values]

FieldSizedEnum(path, type, optional, group, size, values) ==
    [field |-> path, type |-> type, optional |-> optional, group |-> group,
     description |-> sDescription, size |-> size, allowedValues |-> values]

\* nested field paths: a, a.b, a.b.c, a.c and the unrelated ab
TreePaths ==
    {<<"a">>, <<"a",".","b">>, <<"a",".","b",".","c">>, <<"a",".","c">>,
     <<"a","b">>}

TreeFields ==
    {Field(path, type, optional, sParameter) :
        path \in TreePaths, type \in {sObjectDecl}, optional \in BOOLEAN}
    \cup
    {Field(path, type, optional, sParameter) :
        path \in TreePaths \ {<<"a">>}, type \in {sStringDecl}, optional \in {FALSE}}
    \cup
    {Field(path, type, optional, sParameter) :
        path \in {<<"a",".","b">>}, type \in {sStringDecl}, optional \in {TRUE}}

\* declared types: up to MaxTypeParts parts, each a scalar name, "Object" or
\* a piece of the array marker
TypeParts == {sObjectDecl, sStringDecl, sNumberDecl, sMarker, <<"[">>, <<"]">>}

RECURSIVE Concat(_)
Concat(parts) == IF parts = <<>> THEN <<>> ELSE Head(parts) \o Concat(Tail(parts))

DeclaredTypes == {Concat(parts) : parts \in SeqsUpTo(TypeParts, MaxTypeParts) \ {<<>>}}

\* size constraints "min..max", "..max", "min.." and a size without separator
Sizes == {<<"4",".",".","2","0">>, <<".",".","5">>, <<"1",".",".">>, <<"7">>}

EnumValues == <<<<"x">>, <<"y">>>>

TypedFields ==
    {Field(<<"a">>, t, FALSE, sParameter) : t \in DeclaredTypes}
    \cup {FieldSized(<<"a">>, t, FALSE, sParameter, z) : t \in DeclaredTypes, z \in Sizes}
    \cup {FieldEnum(<<"a">>, t, FALSE, sParameter, EnumValues) : t \in DeclaredTypes}
    \cup {FieldSizedEnum(<<"a">>, t, FALSE, sParameter, z, EnumValues) :
            t \in DeclaredTypes, z \in {<<"4",".",".","2","0">>}}

\* the children a typed field may come with
TypedChildren ==
    {<<>>,
     <<Field(<<"a",".","b">>, sStringDecl, FALSE, sParameter)>>,
     <<Field(<<"a",".","b">>, sStringDecl, TRUE, sParameter),
       Field(<<"a",".","b",".","c">>, sNumberDecl, FALSE, sParameter)>>}

----------------------------------------------------------------------------
(* Specifications of getSchema as a function: the inputs are drawn in the  *)
(* initial state and one step calls it.                                    *)

InitTree ==
    /\ data = <<>> /\ idx = 0 /\ pathsObject = <<>>
    /\ stack = <<>> /\ url = <<>> /\ out = <<>>
    /\ params \in SeqsUpTo(TreeFields, MaxFields) \ {<<>>}
    /\ param \in Range(params)
    /\ schema = <<>>
    /\ pc = "getSchema"

InitTyped ==
    /\ data = <<>> /\ idx = 0 /\ pathsObject = <<>>
    /\ stack = <<>> /\ url = <<>> /\ out = <<>>
    /\ param \in TypedFields
    /\ \E kids \in TypedChildren : params = <<param>> \o kids
    /\ schema = <<>>
    /\ pc = "getSchema"

CallGetSchema ==
    /\ pc = "getSchema"
    /\ schema' = getSchema(params, param)
    /\ pc' = "returned"
    /\ UNCHANGED <<data, idx, pathsObject, params, param, stack, url, out>>

NextSchema == CallGetSchema

SpecTree == InitTree /\ [][NextSchema]_vars
SpecTyped == InitTyped /\ [][NextSchema]_vars

----------------------------------------------------------------------------
(* The recursion of getSchema, one activation per step: stack holds the    *)
(* calls still to be made.  JavaScript runs the function to completion, so *)
(* a step that can be taken is taken (weak fairness).                      *)

\* well-formed and malformed lists: duplicate paths, children whose parent
\* is no Object, repeated and nested array markers
TermFields ==
    {Field(<<"a">>, sObjectDecl, FALSE, sParameter),
     Field(<<"a">>, sObjectDecl \o sMarker, FALSE, sParameter),
     Field(<<"a">>, <<"[">> \o sMarker \o <<"]">> \o sMarker, FALSE, sParameter),
     Field(<<"a",".","b">>, sObjectDecl, FALSE, sParameter),
     Field(<<"a",".","b">>, sStringDecl \o sMarker \o sMarker, TRUE, sParameter),
     Field(<<"a",".","b",".","c">>, sObjectDecl, FALSE, sParameter),
     Field(<<"a",".">>, sObjectDecl, FALSE, sParameter),
     Field(<<".">>, sObjectDecl, FALSE, sParameter)}

InitTerm ==
    /\ data = <<>> /\ idx = 0 /\ pathsObject = <<>>
    /\ url = <<>> /\ out = <<>>
    /\ params \in SeqsUpTo(TermFields, MaxFields) \ {<<>>}
    /\ param \in Range(params)
    /\ schema = <<>>
    /\ stack = <<param>>
    /\ pc = "recursing"

Activate ==
    /\ pc = "recursing"
    /\ stack # <<>>
    /\ stack' = RecursiveCalls(params, Head(stack)) \o Tail(stack)
    /\ UNCHANGED <<data, idx, pathsObject, params, param, schema, url, out, pc>>

\* the outermost activation returns once no call is left
Return ==
    /\ pc = "recursing"
    /\ stack = <<>>
    /\ pc' = "returned"
    /\ UNCHANGED <<data, idx, pathsObject, params, param, schema, stack, url, out>>

NextTerm == Activate \/ Return

SpecTerm == InitTerm /\ [][NextTerm]_vars /\ WF_vars(NextTerm)

----------------------------------------------------------------------------
(* toPatternedFieldname as a function: the route is drawn in the initial   *)
(* state, one step normalises it and a second normalises the result.       *)

UrlChars == {"/", ":", "a", "{"}

InitUrl ==
    /\ data = <<>> /\ idx = 0 /\ pathsObject = <<>>
    /\ params = <<>> /\ param = <<>> /\ schema = <<>> /\ stack = <<>>
    /\ url \in SeqsUpTo(UrlChars, MaxUrlLen)
    /\ out = <<>>
    /\ pc = "url"

Normalize ==
    /\ pc = "url"
    /\ out' = <<toPatternedFieldname(url)>>
    /\ pc' = "normalized"
    /\ UNCHANGED <<data, idx, pathsObject, params, param, schema, stack, url>>

NormalizeAgain ==
    /\ pc = "normalized"
    /\ out' = Append(out, toPatternedFieldname(out[1]))
    /\ pc' = "renormalized"
    /\ UNCHANGED <<data, idx, pathsObject, params, param, schema, stack, url>>

NextUrl == Normalize \/ NormalizeAgain

SpecUrl == InitUrl /\ [][NextUrl]_vars

----------------------------------------------------------------------------
(* getPaths: the endpoint list is drawn in the initial state and every     *)
(* step runs one iteration of the loop over data.                          *)

sTitle == <<"t">>
sGroup == <<"g">>
sName == <<"n">>

\* an endpoint record; header stands for item.header.fields.Header,
\* parameter for item.parameter.fields.Parameter, uriParameter for
\* item.parameter.fields['URI Parameter'], success and error for
\* Object.values(item.success.fields) and Object.values(item.error.fields);
\* a member the record lacks is the empty list
Item(u, method, header, parameter, uriParameter, success, error, deprecated) ==
    [url |-> u, type |-> method, title |-> sTitle, description |-> sDescription,
     group |-> sGroup, name |-> sName, deprecated |-> deprecated,
     header |-> header, parameter |-> parameter, uriParameter |-> uriParameter,
     success |-> success, error |-> error]

\* "/u/:a" and "/u/{a}" normalise to the same route
Urls == {<<"/","u","/",":","a">>, <<"/","u","/","{","a","}">>, <<"/","u">>}

\* endpoints that differ in route, method, body and deprecation
Items ==
    {Item(u, method, <<>>, parameter, <<>>, <<>>, <<>>, deprecated) :
        u \in Urls, method \in {"get", "post"},
        parameter \in {<<>>,
                        <<Field(<<"a">>, sStringDecl, FALSE, sParameter)>>,
                        <<Field(<<"a">>, sStringDecl, TRUE, sHeader)>>},
        deprecated \in BOOLEAN}

\* header and parameter fields to classify: "a" in both groups, as Object
\* with the child "a.b" or as scalar, and "b" required or optional
ClassFields ==
    {Field(<<"a">>, type, optional, group) :
        type \in {sObjectDecl, sStringDecl},
        optional \in BOOLEAN, group \in {sHeader, sParameter}}
    \cup
    {Field(<<"a",".","b">>, sStringDecl, FALSE, group) : group \in {sHeader, sParameter}}
    \cup
    {Field(<<"b">>, sStringDecl, optional, sParameter) : optional \in BOOLEAN}

sUriParameter == <<"U","R","I"," ">> \o sParameter

UriParameterLists ==
    {<<>>,
     <<Field(<<"i">>, sNumberDecl, FALSE, sUriParameter)>>,
     <<Field(<<"i">>, sObjectDecl, TRUE, sUriParameter),
       Field(<<"i",".","x">>, sNumberDecl, FALSE, sUriParameter)>>}

\* group labels: the apiDoc defaults, a label whose code collides with
\* "Success 200", a label without status word, and a label with the status
\* word inside
GroupLabels ==
    {sSuccessSp \o <<"2","0","0">>,
     sErrorSp \o <<"4","x","x">>,
     sErrorSp \o <<"2","0","0">>,
     <<"O","k">>,
     <<"M","y"," ">> \o sErrorSp \o <<"5">>}

GroupFieldShapes ==
    {[field |-> <<"i","d">>, type |-> sNumberDecl, optional |-> FALSE],
     [field |-> <<"i","d">>, type |-> sObjectDecl, optional |-> TRUE],
     [field |-> <<"i","d",".","x">>, type |-> sStringDecl, optional |-> FALSE],
     [field |-> <<"n">>, type |-> sNumberDecl, optional |-> TRUE]}

\* the groups of at most n fields; the fields of a group carry its label
ResponseGroups(n) ==
    {[k \in DOMAIN shapes |->
         Field(shapes[k].field, shapes[k].type, shapes[k].optional, label)] :
        shapes \in SeqsUpTo(GroupFieldShapes, n), label \in GroupLabels}

Init ==
    /\ params = <<>> /\ param = <<>> /\ schema = <<>> /\ stack = <<>>
    /\ url = <<>> /\ out = <<>>
    /\ data \in SeqsUpTo(Items, MaxData)
    /\ idx = 0
    /\ pathsObject = <<>>
    /\ pc = "getPaths"

\* one endpoint that either has header, parameter and URI parameter lists
\* (header and parameter of at most MaxParams fields together) and any of
\* the methods, or has a success group of at most MaxParams fields and an
\* error group of at most one
InitItem ==
    /\ params = <<>> /\ param = <<>> /\ schema = <<>> /\ stack = <<>>
    /\ url = <<>> /\ out = <<>>
    /\ \/ \E method \in {"get", "post", "delete"},
             ps \in SeqsUpTo(ClassFields, MaxParams),
             uriParameter \in UriParameterLists :
             \E k \in 0..Len(ps) :
                data = <<Item(<<"/","u">>, method, SubSeq(ps, 1, k),
                              SubSeq(ps, k + 1, Len(ps)), uriParameter,
                              <<>>, <<>>, FALSE)>>
       \/ \E success \in {<<>>} \cup {<<g>> : g \in ResponseGroups(MaxParams)},
             error \in {<<>>} \cup {<<g>> : g \in ResponseGroups(1)} :
                data = <<Item(<<"/","u">>, "get", <<>>, <<>>, <<>>, success, error, FALSE)>>
    /\ idx = 0
    /\ pathsObject = <<>>
    /\ pc = "getPaths"

ProcessNext ==
    /\ pc = "getPaths"
    /\ idx < Len(data)
    /\ pathsObject' = ProcessItem(pathsObject, data[idx + 1])
    /\ idx' = idx + 1
    /\ UNCHANGED <<data, params, param, schema, stack, url, out, pc>>

ReturnPaths ==
    /\ pc = "getPaths"
    /\ idx = Len(data)
    /\ pc' = "returned"
    /\ UNCHANGED <<data, idx, pathsObject, params, param, schema, stack, url, out>>

Next == ProcessNext \/ ReturnPaths

Spec == Init /\ [][Next]_vars
SpecItem == InitItem /\ [][Next]_vars

----------------------------------------------------------------------------
(* Properties of getSchema.                                                *)

\* text of s before and after its first ".."
BeforeSep(s) == SubSeq(s, 1, IndexOf(s, sDotDot))
AfterSep(s) == SubSeq(s, IndexOf(s, sDotDot) + 3, Len(s))
Digits == {"0","1","2","3","4","5","6","7","8","9"}
IsDigits(s) == s # <<>> /\ \A k \in DOMAIN s : s[k] \in Digits

\* C1: a scalar field whose type lowercases to "string" and whose size is
\* "min..max" (min and max digit strings) gets maxLength = the text after
\* the ".." separator.
C1_MaxLengthIsTextAfterSeparator ==
    (/\ pc = "returned"
     /\ ToLowerCase(param.type) = sString
     /\ "size" \in DOMAIN param
     /\ IndexOf(param.size, sDotDot) # -1
     /\ IsDigits(BeforeSep(param.size))
     /\ IsDigits(AfterSep(param.size)))
    => /\ "maxLength" \in DOMAIN schema
       /\ schema.maxLength = AfterSep(param.size)

\* the fields the claim calls the direct children of f: path of f, a dot,
\* and one further segment without a dot
IsDirectChildOf(f, c) ==
    LET n == Len(f.field)
    IN  /\ Len(c.field) > n
        /\ SubSeq(c.field, 1, n + 1) = f.field \o sDot
        /\ \A k \in (n + 2)..Len(c.field) : c.field[k] # "."

DePrefixed(f, c) == SubSeq(c.field, Len(f.field) + 2, Len(c.field))

DirectChildrenOf(f) == {c \in Range(params) : IsDirectChildOf(f, c)}

ObjectSchemaOfChildren ==
    /\ DOMAIN schema = {"type", "properties", "required"}
    /\ schema.type = sObject
    /\ DOMAIN schema.properties = {DePrefixed(param, c) : c \in DirectChildrenOf(param)}
    /\ \A c \in DirectChildrenOf(param) :
          /\ schema.properties[DePrefixed(param, c)] = getSchema(params, c)
          /\ (DePrefixed(param, c) \in Range(schema.required)) <=> ~c.optional
    /\ Range(schema.required) \subseteq DOMAIN schema.properties

\* C7 as stated: for every field list and every field of type "Object" the
\* schema is an object schema over exactly the direct children, each property
\* the child's own schema, a child's name required iff the child is not optional.
C7_ObjectSchemaEveryList ==
    (pc = "returned" /\ param.type = sObjectDecl) => ObjectSchemaOfChildren

ChildPathsDistinct ==
    \A i, j \in DOMAIN params :
        (/\ IsDirectChildOf(param, params[i])
         /\ IsDirectChildOf(param, params[j])
         /\ params[i].field = params[j].field) => i = j

\* C7 amended: the same, for field lists in which no two direct children of
\* the Object field have the same path.
C7_ObjectSchemaDistinctChildren ==
    (pc = "returned" /\ param.type = sObjectDecl /\ ChildPathsDistinct)
    => ObjectSchemaOfChildren

\* witness of C7: "a" with child "a.b" (itself an Object) and grandchild
\* "a.b.c": only b is a property of a, and c is a property of b
C7_Witness ==
    /\ pc = "returned"
    /\ param.field = <<"a">> /\ param.type = sObjectDecl
    /\ ChildPathsDistinct
    /\ \E c \in Range(params) : c.field = <<"a",".","b",".","c">> /\ ~c.optional
    /\ DOMAIN schema.properties = {<<"b">>}
    /\ schema.properties[<<"b">>].type = sObject
    /\ schema.properties[<<"b">>].required = <<<<"c">>>>

EndsWithMarker(t) == Len(t) >= 2 /\ SubSeq(t, Len(t) - 1, Len(t)) = sMarker
WithoutSuffix(t) == SubSeq(t, 1, Len(t) - 2)

\* C9: a field whose type is not "Object" and ends with "[]" gets
\* {type: "array", items: S}, S the schema of the same field with the suffix
\* removed; size and allowed values go to the element schema, not the array.
C9_ArrayOfElementSchema ==
    (pc = "returned" /\ param.type # sObjectDecl /\ EndsWithMarker(param.type))
    => /\ DOMAIN schema = {"type", "items"}
       /\ schema.type = sArray
       /\ schema.items = getSchema(params, WithType(param, WithoutSuffix(param.type)))
       /\ (WithoutSuffix(param.type) = sStringDecl /\ Truthy(param, "size"))
             => "maxLength" \in DOMAIN schema.items
       /\ (WithoutSuffix(param.type) = sStringDecl /\ Present(param, "allowedValues"))
             => schema.items.enum = param.allowedValues

\* witness of C9: "String[][]" with a size and allowed values
C9_Witness ==
    /\ pc = "returned"
    /\ param.type = sStringDecl \o sMarker \o sMarker
    /\ Present(param, "allowedValues") /\ Truthy(param, "size")
    /\ schema.type = sArray
    /\ schema.items.type = sArray
    /\ schema.items.items.type = sString
    /\ schema.items.items.enum = EnumValues

\* C10: the recursion of getSchema ends for every finite field list, also a
\* malformed one, and every recursive call is for a field with a strictly
\* longer path or for the same field with a strictly shorter type string.
C10_RecursionTerminates ==
    /\ <>(pc = "returned")
    /\ [][(pc = "recursing" /\ stack # <<>>) =>
            \A k \in 1..(Len(stack') - Len(stack) + 1) :
                \/ Len(stack'[k].field) > Len(Head(stack).field)
                \/ /\ stack'[k].field = Head(stack).field
                   /\ Len(stack'[k].type) < Len(Head(stack).type)]_vars

\* witness of C10: a list with a duplicate path, an array of Objects and a
\* doubly marked array has been resolved
C10_Witness ==
    /\ pc = "returned"
    /\ param.type = sObjectDecl \o sMarker
    /\ \E i, j \in DOMAIN params :
          i # j /\ params[i].field = params[j].field /\ Len(params[i].field) > 1
    /\ \E c \in Range(params) : IsChildParam(param, c)

----------------------------------------------------------------------------
(* Properties of toPatternedFieldname.                                     *)

\* the segments of a route: the text between consecutive "/"
SlashBounds(s) ==
    <<0>> \o SelectSeq([k \in 1..Len(s) |-> k], LAMBDA k : s[k] = "/") \o <<Len(s) + 1>>

Segments(s) ==
    LET b == SlashBounds(s)
    IN  [j \in 1..(Len(b) - 1) |-> SubSeq(s, b[j] + 1, b[j + 1] - 1)]

\* C8: every segment that starts with ":" is replaced by the rest of it in
\* braces, every other segment is unchanged, number and order of segments
\* are kept, and normalising the result again changes nothing.
C8_SegmentsPatterned ==
    /\ pc \in {"normalized", "renormalized"} =>
          LET a == Segments(url)
              b == Segments(out[1])
          IN  /\ Len(a) = Len(b)
              /\ \A k \in DOMAIN a :
                    b[k] = IF a[k] # <<>> /\ Head(a[k]) = ":"
                           THEN <<"{">> \o Tail(a[k]) \o <<"}">>
                           ELSE a[k]
    /\ pc = "renormalized" => out[2] = out[1]

\* witness of C8: "/a/:a" became "/a/{a}" and stayed so
C8_Witness ==
    /\ pc = "renormalized"
    /\ url = <<"/", "a", "/", ":", "a">>
    /\ out = << <<"/", "a", "/", "{", "a", "}">>, <<"/", "a", "/", "{", "a", "}">> >>

----------------------------------------------------------------------------
(* Properties of getPaths.                                                 *)

RouteOf(item) == toPatternedFieldname(item.url)

\* the item processed last and the operation it wrote
LastItem == data[idx]
LastOp == pathsObject[RouteOf(LastItem)][LastItem.type]

HasDot(path) == \E k \in DOMAIN path : path[k] = "."

BodySchema(op) == op.requestBody.content[contentType].schema
BodyProperties(op) ==
    IF "requestBody" \in DOMAIN op THEN DOMAIN BodySchema(op).properties ELSE {}
BodyRequired(op) ==
    IF "requestBody" \in DOMAIN op THEN Range(BodySchema(op).required) ELSE {}

\* C2: no field with a dot in its path, of the header, Parameter or URI
\* Parameter list, is an entry of the operation's parameters or a top-level
\* property of the request-body schema.
C2_DottedFieldsNotClassified ==
    idx >= 1 =>
        \A f \in Range(LastItem.header \o LastItem.parameter \o LastItem.uriParameter) :
            HasDot(f.field) =>
                /\ \A k \in DOMAIN LastOp.parameters : LastOp.parameters[k].name # f.field
                /\ f.field \notin BodyProperties(LastOp)

\* where the claim puts a field of the header and Parameter lists
PlaceOf(f, method) ==
    IF f.group = sHeader THEN "header"
    ELSE IF method \in {"get", "delete"} THEN "query"
    ELSE "body"

ClassifiedFields == LastItem.header \o LastItem.parameter
ParameterFields ==
    SelectSeq(ClassifiedFields, LAMBDA f : PlaceOf(f, LastItem.type) # "body")
BodyFields ==
    SelectSeq(ClassifiedFields, LAMBDA f : PlaceOf(f, LastItem.type) = "body")
NonPathParameters == SelectSeq(LastOp.parameters, LAMBDA e : e.in # "path")

\* every field is in its one place, and required = not optional
EachFieldInItsPlace ==
    /\ Len(NonPathParameters) = Len(ParameterFields)
    /\ \A k \in DOMAIN ParameterFields :
          /\ NonPathParameters[k].name = ParameterFields[k].field
          /\ NonPathParameters[k].in = PlaceOf(ParameterFields[k], LastItem.type)
          /\ NonPathParameters[k].required = ~ParameterFields[k].optional
    /\ BodyProperties(LastOp) = {f.field : f \in Range(BodyFields)}
    /\ BodyRequired(LastOp) \subseteq BodyProperties(LastOp)
    /\ \A f \in Range(BodyFields) : (f.field \in BodyRequired(LastOp)) <=> ~f.optional

BodyNamesDistinct ==
    \A i, j \in DOMAIN BodyFields : BodyFields[i].field = BodyFields[j].field => i = j

WriterOf(route, method) ==
    data[CHOOSE k \in 1..idx :
            /\ RouteOf(data[k]) = route /\ data[k].type = method
            /\ \A j \in 1..idx :
                  (RouteOf(data[j]) = route /\ data[j].type = method) => j <= k]

HasBodyField(item) ==
    \E f \in Range(item.header \o item.parameter) :
        f.group # sHeader /\ item.type \notin {"get", "delete"}

\* C4: every operation of the output has a parameters member, and has a
\* requestBody member iff a field of its endpoint was classified as a body
\* field; a requestBody is never the empty object.
C4_RequestBodyIffBodyField ==
    \A route \in DOMAIN pathsObject : \A method \in DOMAIN pathsObject[route] :
        LET op == pathsObject[route][method]
        IN  /\ "parameters" \in DOMAIN op
            /\ ("requestBody" \in DOMAIN op) <=> HasBodyField(WriterOf(route, method))
            /\ "requestBody" \in DOMAIN op => ~IsEmptyObject(op.requestBody)

\* witness of C4: a GET operation without requestBody whose parameters list
\* is empty, beside a POST operation with a requestBody
C4_Witness ==
    /\ pc = "returned"
    /\ \E route \in DOMAIN pathsObject :
          /\ DOMAIN pathsObject[route] = {"get", "post"}
          /\ pathsObject[route]["get"].parameters = <<>>
          /\ "requestBody" \notin DOMAIN pathsObject[route]["get"]
          /\ "requestBody" \in DOMAIN pathsObject[route]["post"]

\* what the claim says of a response group: its direct fields and its code
DirectFields(g) == SelectSeq(g, LAMBDA f : ~HasDot(f.field))
HasPrefix(s, t) == Len(s) >= Len(t) /\ SubSeq(s, 1, Len(t)) = t
PrefixStripped(label) ==
    IF HasPrefix(label, sSuccessSp) THEN SubSeq(label, Len(sSuccessSp) + 1, Len(label))
    ELSE IF HasPrefix(label, sErrorSp) THEN SubSeq(label, Len(sErrorSp) + 1, Len(label))
    ELSE label
ClaimedCode(g) == ToUpperCase(PrefixStripped(g[1].group))

ResponseGroupsOf(item) == item.success \o item.error
GroupsWithDirectField(item) ==
    SelectSeq(ResponseGroupsOf(item), LAMBDA g : DirectFields(g) # <<>>)

\* the endpoint's groups give different codes and their direct fields have
\* different names
GroupsWellFormed(item) ==
    LET gs == GroupsWithDirectField(item)
    IN  /\ \A i, j \in DOMAIN gs : ClaimedCode(gs[i]) = ClaimedCode(gs[j]) => i = j
        /\ \A k \in DOMAIN gs :
              \A i, j \in DOMAIN DirectFields(gs[k]) :
                  DirectFields(gs[k])[i].field = DirectFields(gs[k])[j].field => i = j

\* C5: a group without direct field adds no response; a group with one adds
\* one response keyed by its label without the "Success "/"Error " prefix,
\* upper-cased, whose schema has exactly the direct fields as properties and
\* exactly the non-optional ones as required.  Stated for endpoints whose
\* groups give different codes and whose direct fields have different names.
C5_ResponsePerGroupWithDirectField ==
    (idx >= 1 /\ GroupsWellFormed(LastItem)) =>
        LET gs == GroupsWithDirectField(LastItem)
        IN  /\ DOMAIN LastOp.responses = {ClaimedCode(gs[k]) : k \in DOMAIN gs}
            /\ \A k \in DOMAIN gs :
                  LET sch == LastOp.responses[ClaimedCode(gs[k])].content[contentType].schema
                      direct == DirectFields(gs[k])
                  IN  /\ DOMAIN sch.properties = {f.field : f \in Range(direct)}
                      /\ Range(sch.required) =
                            {f.field : f \in {d \in Range(direct) : ~d.optional}}

SameOperation(item, op) == op = OperationOf(item)

\* C6: the Path Item at the route of every processed endpoint has a key for
\* its method; every operation is the one of the last endpoint with that
\* route and method (a later endpoint with another method leaves it alone);
\* no route or method key comes from no endpoint.
C6_OnePathItemPerRoute ==
    /\ \A k \in 1..idx :
          /\ RouteOf(data[k]) \in DOMAIN pathsObject
          /\ data[k].type \in DOMAIN pathsObject[RouteOf(data[k])]
    /\ \A route \in DOMAIN pathsObject :
          /\ DOMAIN pathsObject[route] # {}
          /\ \A method \in DOMAIN pathsObject[route] :
                /\ \E k \in 1..idx : RouteOf(data[k]) = route /\ data[k].type = method
                /\ SameOperation(WriterOf(route, method), pathsObject[route][method])

\* witness of C6: "/u/:a" with GET and "/u/{a}" with POST share the Path
\* Item "/u/{a}", which has both method keys
C6_Witness ==
    /\ pc = "returned"
    /\ Len(data) = 2
    /\ data[1].url # data[2].url
    /\ data[1].type = "get" /\ data[2].type = "post"
    /\ DOMAIN pathsObject = {<<"/","u","/","{","a","}">>}
    /\ DOMAIN pathsObject[<<"/","u","/","{","a","}">>] = {"get", "post"}

====
